---- MODULE Spec2Model ----
(***************************************************************************)
(* Model of lorch/stages/canonize.py: CanonizeStage.execute and its        *)
(* helpers _find_manifests, _transform_from_manifest, _transform_gzip_part.*)
(*                                                                         *)
(* Files are modelled by their content.  A JSON file is [ok |-> FALSE]     *)
(* when json.load raises on it and [ok |-> TRUE, obj |-> d] otherwise; a   *)
(* JSON object d is a record whose DOMAIN is its set of keys, so           *)
(* dict.get(k, default) is Get(d, k, default).  Text is a sequence of      *)
(* tokens, "\n" being the newline and "/" the path separator.              *)
(***************************************************************************)
EXTENDS Integers, Sequences, FiniteSets, TLC

VARIABLES
    mappings,       \* config "mappings": sequence of [source_pattern, transform]
    vault,          \* vault_root: source_path -> account entry name -> entry
    out,            \* files under output_dir: path -> content
    dirs,           \* sub-directories of output_dir created by mkdir
    pc,             \* position in execute(): "mapping", "manifest", "collect", "done"
    mi,             \* index of the current mapping of the for loop (line 87)
    manifests,      \* manifests found for the current mapping (line 93)
    ki,             \* index of the current manifest of the for loop (line 119)
    total_records,  \* line 82
    errors,         \* line 84
    result,         \* the returned StageResult
    found,          \* history: per mapping visited, the manifests discovered
    attempts        \* history: one record per _transform_from_manifest call

vars == <<mappings, vault, out, dirs, pc, mi, manifests, ki, total_records,
          errors, result, found, attempts>>

----------------------------------------------------------------------------
(* Bounds of the model *)

MaxMappings == 2
MaxParts == 3
MaxSeq == 2

----------------------------------------------------------------------------
(* Python helpers *)

\* dict.get(k, default)
Get(d, k, default) == IF k \in DOMAIN d THEN d[k] ELSE default

\* dict.get(k) (lines 302-303): None for a missing key, which is no string,
\* so the result says whether a value is there
GetOrNone(d, k) ==
    IF k \in DOMAIN d THEN [isNone |-> FALSE, value |-> d[k]]
    ELSE [isNone |-> TRUE, value |-> ""]

\* mutant of Falsy: only a missing field is rejected
OnlyNone(v) == v.isNone

\* truth value of `not v` (line 305): None and the empty string are falsy,
\* every other string is truthy
Falsy(v) == v.isNone \/ v.value = ""

\* str.replace("/", "_") (line 385)
ReplaceSlash(s) == [i \in DOMAIN s |-> IF s[i] = "/" THEN "_" ELSE s[i]]

\* str.count("\n") (line 472)
CountNewlines(s) == Cardinality({i \in DOMAIN s : s[i] = "\n"})

\* the key of sorted() at line 401
SeqKey(p) == Get(p, "seq", 0)

\* list.insert keeping the order of equal keys: x goes after every element
\* whose key is <= its own (sorted() is stable)
RECURSIVE InsertByKey(_, _)
InsertByKey(x, s) ==
    IF s = <<>> THEN <<x>>
    ELSE IF SeqKey(s[Len(s)]) <= SeqKey(x) THEN Append(s, x)
    ELSE Append(InsertByKey(x, SubSeq(s, 1, Len(s) - 1)), s[Len(s)])

\* mutant of SortedBySeq: the parts are taken in manifest order
ManifestOrder(parts) == parts

\* sorted(parts, key=lambda p: p.get("seq", 0)) (line 401)
RECURSIVE SortedBySeq(_)
SortedBySeq(parts) ==
    IF parts = <<>> THEN <<>>
    ELSE InsertByKey(parts[Len(parts)], SortedBySeq(SubSeq(parts, 1, Len(parts) - 1)))

----------------------------------------------------------------------------
(* The environment: part files of a run directory and the external engine *)

\* part files that exist in a run directory; "pm" is referenced by manifests
\* but is not on disk
PartFiles == {"pa", "pb", "px"}
PartPaths == PartFiles \cup {"pm"}

\* mutant of PartExists: the existence check is dropped
PartAssumedPresent(path) == TRUE

\* part_path.exists() (line 404)
PartExists(path) == path \in PartFiles

\* subprocess.run of `can transform run --meta <meta>` on the decompressed
\* part (lines 449-459): a deterministic engine
Engine(path) ==
    CASE path = "pa" -> [returncode |-> 0, stdout |-> <<"a", "\n">>]
      [] path = "pb" -> [returncode |-> 0, stdout |-> <<"b", "\n", "c", "\n">>]
      [] OTHER       -> [returncode |-> 1, stdout |-> <<"x", "\n">>]

\* transform metadata files present in the registry: <name>.meta.yaml
Registry == {"t1"}

\* transform_meta.exists() (line 379)
MetaExists(transform_name) == transform_name \in Registry

----------------------------------------------------------------------------
(* Output files.  A path is [dir, name, ext]: dir is the directory below   *)
(* output_dir (<<>> is output_dir itself), the file is <name>.<ext>.       *)

OutputFile(source, account) ==
    [dir |-> ReplaceSlash(source), name |-> account, ext |-> "jsonl"]

\* open(output_file, "a").write(text) (lines 468-469)
AppendFile(fs, file, text) ==
    IF file \in DOMAIN fs
    THEN [fs EXCEPT ![file] = @ \o text]
    ELSE [p \in DOMAIN fs \cup {file} |-> IF p = file THEN text ELSE fs[p]]

\* account_output_dir.mkdir(parents=True, exist_ok=True) (line 389): on
\* output_dir itself, which exists, it creates nothing
Mkdir(ds, dir) == IF dir = <<>> THEN ds ELSE ds \cup {dir}

\* output_file.unlink() (line 396)
Unlink(fs, file) == [p \in DOMAIN fs \ {file} |-> fs[p]]

\* output_dir.glob("*.jsonl") (line 155): the entries of output_dir itself
\* whose name ends in .jsonl; the pattern does not descend into directories
\* (no directory of the model has a name ending in .jsonl)
GlobJsonl(fs) == {p \in DOMAIN fs : p.dir = <<>> /\ p.ext = "jsonl"}

----------------------------------------------------------------------------
(* Outcome of a call: either a return value or a raised exception, with    *)
(* the output directory as the call leaves it and the parts it sent to the *)
(* engine, in order.                                                       *)

NoExc == [type |-> "", what |-> ""]

Returned(v, fs, ds, calls) ==
    [raised |-> FALSE, value |-> v, exc |-> NoExc, out |-> fs, dirs |-> ds, calls |-> calls]

Raised(type, what, fs, ds, calls) ==
    [raised |-> TRUE, value |-> 0, exc |-> [type |-> type, what |-> what],
     out |-> fs, dirs |-> ds, calls |-> calls]

\* mutant of TransformGzipPart: the output is appended before the exit code
\* is looked at
AppendThenCheck(part_path, output_file, fs) ==
    LET run == Engine(part_path)
    IN  [raised |-> run.returncode # 0,
         value |-> IF run.returncode # 0 THEN 0 ELSE CountNewlines(run.stdout),
         out |-> AppendFile(fs, output_file, run.stdout)]

\* _transform_gzip_part (lines 419-474); returncode # 0 raises RuntimeError
\* before anything is written
TransformGzipPart(part_path, output_file, fs) ==
    LET run == Engine(part_path)
    IN  IF run.returncode # 0
        THEN [raised |-> TRUE, value |-> 0, out |-> fs]
        ELSE [raised |-> FALSE, value |-> CountNewlines(run.stdout),
              out |-> AppendFile(fs, output_file, run.stdout)]

\* the for loop of lines 401-415 from position i of the sorted parts
RECURSIVE PartLoop(_, _, _, _, _, _, _)
PartLoop(sorted, i, output_file, fs, ds, total, calls) ==
    IF i > Len(sorted) THEN Returned(total, fs, ds, calls)
    ELSE LET part_path == sorted[i].path
         IN  IF ~PartExists(part_path)
             THEN PartLoop(sorted, i + 1, output_file, fs, ds, total, calls)
             ELSE LET r == TransformGzipPart(part_path, output_file, fs)
                  IN  IF r.raised
                      THEN Raised("RuntimeError", part_path, r.out, ds,
                                  Append(calls, sorted[i]))
                      ELSE PartLoop(sorted, i + 1, output_file, r.out, ds,
                                    total + r.value, Append(calls, sorted[i]))

\* _transform_from_manifest after the empty-parts return (lines 376-417)
Rebuild(manifest, parts, transform_name, fs, ds) ==
    IF ~MetaExists(transform_name)
    THEN Raised("FileNotFoundError", transform_name, fs, ds, <<>>)
    ELSE LET account == Get(manifest, "account", "unknown")
             source == Get(manifest, "source", <<"unknown">>)
             output_file == OutputFile(source, account)
             ds1 == Mkdir(ds, output_file.dir)
             fs1 == IF output_file \in DOMAIN fs THEN Unlink(fs, output_file) ELSE fs
         IN  PartLoop(SortedBySeq(parts), 1, output_file, fs1, ds1, 0, <<>>)

\* mutant of TransformFromManifest: the transform metadata is looked up
\* before the parts list is tested
MetadataFirst(mf, transform_name, fs, ds) ==
    IF ~mf.ok THEN Raised("JSONDecodeError", "manifest", fs, ds, <<>>)
    ELSE IF ~MetaExists(transform_name)
    THEN Raised("FileNotFoundError", transform_name, fs, ds, <<>>)
    ELSE LET parts == Get(mf.obj, "parts", <<>>)
         IN  IF parts = <<>> THEN Returned(0, fs, ds, <<>>)
             ELSE Rebuild(mf.obj, parts, transform_name, fs, ds)

\* _transform_from_manifest (lines 331-417) on the manifest file content mf
TransformFromManifest(mf, transform_name, fs, ds) ==
    IF ~mf.ok THEN Raised("JSONDecodeError", "manifest", fs, ds, <<>>)
    ELSE LET parts == Get(mf.obj, "parts", <<>>)
         IN  IF parts = <<>> THEN Returned(0, fs, ds, <<>>)
             ELSE Rebuild(mf.obj, parts, transform_name, fs, ds)

----------------------------------------------------------------------------
(* Manifest discovery *)

\* path of the manifest.json a marker points to (line 310)
ManifestPath(source_path, account, dt, run_id) ==
    [source_path |-> source_path, account |-> account, dt |-> dt, run_id |-> run_id]

\* one iteration of the loop of lines 286-327: the manifests the account
\* entry contributes
CheckAccount(source_path, name, entry) ==
    IF ~entry.isdir THEN <<>>
    ELSE IF ~entry.marker.exists THEN <<>>
    ELSE IF ~entry.marker.ok THEN <<>>     \* json.load raises: except (line 324)
    ELSE LET dt == GetOrNone(entry.marker.obj, "dt")
             run_id == GetOrNone(entry.marker.obj, "run_id")
         IN  IF Falsy(dt) \/ Falsy(run_id) THEN <<>>
             ELSE IF <<dt.value, run_id.value>> \notin DOMAIN entry.runs THEN <<>>
             ELSE <<ManifestPath(source_path, name, dt.value, run_id.value)>>

RECURSIVE FindLoop(_, _, _, _)
FindLoop(source_path, source_dir, order, i) ==
    IF i > Len(order) THEN <<>>
    ELSE CheckAccount(source_path, order[i], source_dir[order[i]])
         \o FindLoop(source_path, source_dir, order, i + 1)

\* _find_manifests (lines 264-329); order is the order of iterdir()
FindManifests(vault_root, source_path, order) ==
    IF source_path \notin DOMAIN vault_root THEN <<>>
    ELSE FindLoop(source_path, vault_root[source_path], order, 1)

\* the orders in which iterdir() may list a directory
Orders(names) ==
    {o \in [1..Cardinality(names) -> names] : \A n \in names : \E i \in DOMAIN o : o[i] = n}

\* iterdir() of vault_root / source_path
ListDir(vault_root, source_path) ==
    IF source_path \in DOMAIN vault_root
    THEN Orders(DOMAIN vault_root[source_path]) ELSE {<<>>}

\* content of the manifest.json at a discovered path (lines 353-354)
ReadManifest(vault_root, path) ==
    vault_root[path.source_path][path.account].runs[<<path.dt, path.run_id>>]

----------------------------------------------------------------------------
(* execute() *)

\* total_records += records_processed (line 129), skipped when the call raised
AddRecords(total, r) == IF r.raised THEN total ELSE total + r.value

\* mutant of AddError: the error list is overwritten, not appended to
OverwriteError(errs, manifest_path, r) ==
    IF r.raised THEN <<[manifest |-> manifest_path, e |-> r.exc]>> ELSE errs

\* errors.append(error_msg) in the except clause (lines 142-144)
AddError(errs, manifest_path, r) ==
    IF r.raised THEN Append(errs, [manifest |-> manifest_path, e |-> r.exc]) ELSE errs

\* the StageResult built at lines 157-179
StageResult(errs, output_files, total, maps) ==
    IF errs # <<>> /\ output_files = {}
    THEN [success |-> FALSE,
          error_message |-> [count |-> Len(errs), first |-> errs[1]]]
    ELSE [success |-> TRUE,
          records_processed |-> total,
          output_files |-> output_files,
          metadata |-> [mappings_applied |-> Len(maps),
                        manifests_processed |-> total,
                        errors |-> Len(errs)]]

\* one iteration of the mapping loop up to its manifest loop (lines 87-116)
FindStep ==
    /\ pc = "mapping"
    /\ mi <= Len(mappings)
    /\ \E order \in ListDir(vault, mappings[mi].source_pattern) :
         LET ms == FindManifests(vault, mappings[mi].source_pattern, order)
         IN  /\ manifests' = ms
             /\ found' = Append(found, ms)
             /\ ki' = 1
             /\ mi' = IF ms = <<>> THEN mi + 1 ELSE mi
             /\ pc' = IF ms = <<>> THEN "mapping" ELSE "manifest"
    /\ UNCHANGED <<mappings, vault, out, dirs, total_records, errors, result, attempts>>

\* one iteration of the manifest loop, try and except included (lines 119-152)
ManifestStep ==
    /\ pc = "manifest"
    /\ ki <= Len(manifests)
    /\ LET manifest_path == manifests[ki]
           mf == ReadManifest(vault, manifest_path)
           r == TransformFromManifest(mf, mappings[mi].transform, out, dirs)
       IN  /\ out' = r.out
           /\ dirs' = r.dirs
           /\ total_records' = AddRecords(total_records, r)
           /\ errors' = AddError(errors, manifest_path, r)
           /\ attempts' = Append(attempts,
                  [mapping |-> mi, manifest |-> manifest_path, mf |-> mf,
                   transform |-> mappings[mi].transform, before |-> out, r |-> r])
    /\ ki' = IF ki = Len(manifests) THEN 1 ELSE ki + 1
    /\ mi' = IF ki = Len(manifests) THEN mi + 1 ELSE mi
    /\ pc' = IF ki = Len(manifests) THEN "mapping" ELSE "manifest"
    /\ UNCHANGED <<mappings, vault, manifests, result, found>>

\* after the mapping loop: collect the output files and return (lines 154-179)
CollectStep ==
    /\ pc = "mapping"
    /\ mi > Len(mappings)
    /\ result' = StageResult(errors, GlobJsonl(out), total_records, mappings)
    /\ pc' = "done"
    /\ UNCHANGED <<mappings, vault, out, dirs, mi, manifests, ki, total_records,
                   errors, found, attempts>>

Next == FindStep \/ ManifestStep \/ CollectStep

----------------------------------------------------------------------------
(* Inputs *)

SeqsUpTo(S, n) == UNION {[1..k -> S] : k \in 0..n}

NoFiles == [p \in {} |-> <<>>]
OneFile(file, text) == [p \in {file} |-> text]

BadJson == [ok |-> FALSE]
Json(obj) == [ok |-> TRUE, obj |-> obj]

Part(seq, path) == [seq |-> seq, path |-> path]

FileEntry == [isdir |-> FALSE]
DirEntry(marker, runs) == [isdir |-> TRUE, marker |-> marker, runs |-> runs]
NoMarker == [exists |-> FALSE]
BadMarker == [exists |-> TRUE, ok |-> FALSE]
Marker(obj) == [exists |-> TRUE, ok |-> TRUE, obj |-> obj]
NoRuns == [k \in {} |-> BadJson]
ValidEntry(mf) ==
    DirEntry(Marker([dt |-> "d1", run_id |-> "r1"]), [k \in {<<"d1", "r1">>} |-> mf])

Mapping(source_pattern, transform) ==
    [source_pattern |-> source_pattern, transform |-> transform]

\* the "source" field the manifests under a source path carry
SourceOf(source_path) == IF source_path = "s1" THEN <<"e", "/", "g">> ELSE <<"f">>

Transforms == {"t1", "t2"}
Accounts == {"a1", "a2"}

\* the state every execute() starts in
Start ==
    /\ dirs = {p.dir : p \in DOMAIN out} \ {<<>>}
    /\ pc = "mapping"
    /\ mi = 1
    /\ manifests = <<>>
    /\ ki = 1
    /\ total_records = 0
    /\ errors = <<>>
    /\ result = [running |-> TRUE]
    /\ found = <<>>
    /\ attempts = <<>>

(* Stage runs: up to MaxMappings mappings over two source paths, the second *)
(* of which may be absent from the vault.                                   *)

StagePartLists ==
    {<<>>, <<Part(0, "pa")>>, <<Part(0, "px")>>, <<Part(0, "pa"), Part(1, "px")>>}

StageManifests(source, account) ==
    {BadJson}
    \cup {Json([account |-> account, source |-> source, parts |-> pl]) : pl \in StagePartLists}
    \cup {Json([account |-> account, source |-> <<>>, parts |-> <<Part(0, "pa")>>])}

StageEntries(source_path, account) ==
    {DirEntry(NoMarker, NoRuns)}
    \cup {ValidEntry(mf) : mf \in StageManifests(SourceOf(source_path), account)}

StageDirs(source_path, accounts) ==
    LET all == UNION {StageEntries(source_path, a) : a \in accounts}
    IN  {d \in [accounts -> all] : \A a \in accounts : d[a] \in StageEntries(source_path, a)}

StageVaults ==
    {[sp \in {"s1"} |-> d1] : d1 \in StageDirs("s1", Accounts)}
    \cup {[sp \in {"s1", "s2"} |-> IF sp = "s1" THEN d1 ELSE d2] :
            d1 \in StageDirs("s1", Accounts), d2 \in StageDirs("s2", {"a1"})}

StagePriorOuts ==
    {NoFiles,
     OneFile([dir |-> <<>>, name |-> "old", ext |-> "jsonl"], <<"o", "\n">>),
     OneFile(OutputFile(SourceOf("s1"), "a1"), <<"z", "\n">>)}

Init ==
    /\ mappings \in SeqsUpTo({Mapping(sp, t) : sp \in {"s1", "s2"}, t \in Transforms},
                             MaxMappings) \ {<<>>}
    /\ vault \in StageVaults
    /\ out \in StagePriorOuts
    /\ Start

Spec == Init /\ [][Next]_vars

(* One manifest, of any shape, transformed once or twice from any prior    *)
(* state of its output file.                                               *)

PartDescs ==
    {Part(q, p) : q \in 0..MaxSeq, p \in PartPaths} \cup {[path |-> p] : p \in PartPaths}

PartLists ==
    {pl \in SeqsUpTo(PartDescs, MaxParts) :
        \A i, j \in DOMAIN pl : pl[i].path = pl[j].path => i = j}

ManifestShapes ==
    {BadJson,
     Json([account |-> "a1", source |-> SourceOf("s1")]),
     Json([parts |-> <<Part(0, "pa")>>])}
    \cup {Json([account |-> "a1", source |-> SourceOf("s1"), parts |-> pl]) : pl \in PartLists}

ManifestPriorOuts ==
    {NoFiles,
     OneFile(OutputFile(SourceOf("s1"), "a1"), <<>>),
     OneFile(OutputFile(SourceOf("s1"), "a1"), <<"z", "\n">>)}

InitManifest ==
    /\ mappings \in {<<Mapping("s1", "t1")>>, <<Mapping("s1", "t2")>>,
                     <<Mapping("s1", "t1"), Mapping("s1", "t1")>>}
    /\ vault \in {[sp \in {"s1"} |-> [a \in {"a1"} |-> ValidEntry(mf)]] : mf \in ManifestShapes}
    /\ out \in ManifestPriorOuts
    /\ Start

SpecManifest == InitManifest /\ [][Next]_vars

(* Discovery: a source directory with two entries of any shape.            *)

MarkerObjs ==
    [dt : {"", "d1"}, run_id : {"", "r1", "r2"}]
    \cup {[dt |-> "d1"], [run_id |-> "r1"], [dt |-> "None", run_id |-> "r1"]}

Markers == {NoMarker, BadMarker} \cup {Marker(o) : o \in MarkerObjs}

RunKeys == {<<"d1", "r1">>, <<"d1", "r2">>, <<"", "r1">>, <<"None", "r1">>}

GoodManifest(account) ==
    Json([account |-> account, source |-> SourceOf("s1"), parts |-> <<Part(0, "pa")>>])

FindEntries(account) ==
    {FileEntry}
    \cup {DirEntry(m, [k \in ks |-> GoodManifest(account)]) : m \in Markers, ks \in SUBSET RunKeys}

InitFind ==
    /\ mappings \in {<<Mapping("s1", "t1")>>, <<Mapping("s2", "t1")>>}
    /\ vault \in {[sp \in {"s1"} |-> [a \in Accounts |-> IF a = "a1" THEN e1 ELSE e2]] :
                    e1 \in FindEntries("a1"), e2 \in FindEntries("a2")}
    /\ out = NoFiles
    /\ Start

SpecFind == InitFind /\ [][Next]_vars

----------------------------------------------------------------------------
(* Vocabulary of the properties *)

Range(s) == {s[i] : i \in DOMAIN s}

Last(s) == s[Len(s)]

\* the parts list of the manifest of an attempt (empty when there is none)
PartsOf(a) == IF a.mf.ok THEN Get(a.mf.obj, "parts", <<>>) ELSE <<>>

\* the canonical output file of the (source, account) pair of an attempt
FileOf(a) ==
    OutputFile(Get(a.mf.obj, "source", <<"unknown">>), Get(a.mf.obj, "account", "unknown"))

\* the parts of an attempt's manifest that are on disk
ExistingParts(a) == {p \in Range(PartsOf(a)) : p.path \in PartFiles}

\* the attempt got as far as the part loop
ReachedParts(a) == a.mf.ok /\ PartsOf(a) # <<>> /\ a.transform \in Registry

\* content of a file, the empty text when it does not exist
Content(fs, file) == IF file \in DOMAIN fs THEN fs[file] ELSE <<>>

\* existence and content of a file
FileState(fs, file) ==
    IF file \in DOMAIN fs THEN [exists |-> TRUE, text |-> fs[file]]
    ELSE [exists |-> FALSE, text |-> <<>>]

\* what the engine prints for a sequence of parts, concatenated in order
RECURSIVE Outputs(_)
Outputs(calls) ==
    IF calls = <<>> THEN <<>>
    ELSE Outputs(SubSeq(calls, 1, Len(calls) - 1)) \o Engine(Last(calls).path).stdout

\* the number of records the engine prints for a set of parts
RECURSIVE Records(_)
Records(ps) ==
    IF ps = {} THEN 0
    ELSE LET p == CHOOSE x \in ps : TRUE
         IN  CountNewlines(Engine(p.path).stdout) + Records(ps \ {p})

NonDecreasing(calls) ==
    \A i, j \in DOMAIN calls : i < j => SeqKey(calls[i]) <= SeqKey(calls[j])

EngineOk(p) == Engine(p.path).returncode = 0

\* the canonical output files present under the output directory
JsonlFiles(fs) == {p \in DOMAIN fs : p.ext = "jsonl"}

\* the attempt the step being taken has just recorded
NewAttempt == attempts'[Len(attempts')]

----------------------------------------------------------------------------
(* Properties of _transform_from_manifest, checked under SpecManifest *)

\* C2 (as claimed): whenever _transform_from_manifest returns normally, the
\* existence and content of the (source, account) output file are those a run
\* from an absent file produces, whatever the file held before - for every
\* manifest, one with an empty or missing parts list included.
C2_Idempotent ==
    \A k \in DOMAIN attempts :
        LET a == attempts[k]
        IN  (a.mf.ok /\ ~a.r.raised) =>
                FileState(a.r.out, FileOf(a))
                  = FileState(TransformFromManifest(a.mf, a.transform, NoFiles, {}).out,
                              FileOf(a))

\* C3: the parts sent to the engine are parts of the manifest that exist
\* on disk, each sent at most once, in ascending seq order (a missing seq
\* counting as 0); on a normal return every existing part was sent; and when
\* the part loop was reached the output file holds exactly the engine outputs
\* of the successfully transformed parts, concatenated in that order.
C3_AscendingSeq ==
    \A k \in DOMAIN attempts :
        LET a == attempts[k]
            calls == a.r.calls
        IN  /\ NonDecreasing(calls)
            /\ Range(calls) \subseteq ExistingParts(a)
            /\ \A i, j \in DOMAIN calls : calls[i] = calls[j] => i = j
            /\ (a.mf.ok /\ ~a.r.raised) => Range(calls) = ExistingParts(a)
            /\ ReachedParts(a) =>
                  Content(a.r.out, FileOf(a))
                    = Outputs(SelectSeq(calls, EngineOk))

\* C3 witness: parts listed with seq 2, 0, 1 were transformed in the order
\* 0, 2 (the part with seq 1 is missing) and appended in that order.
C3_Witness ==
    \E k \in DOMAIN attempts :
        LET a == attempts[k]
        IN  /\ a.mf.ok
            /\ PartsOf(a) = <<Part(2, "pa"), Part(0, "pb"), Part(1, "pm")>>
            /\ ~a.r.raised
            /\ a.r.calls = <<Part(0, "pb"), Part(2, "pa")>>
            /\ a.r.out[FileOf(a)] = <<"b", "\n", "c", "\n", "a", "\n">>

\* C6: a part missing on disk is never sent to the engine and never makes
\* the call fail: when the part loop is reached and the engine succeeds on
\* every existing part, the call returns the sum of the record counts of
\* the existing parts, all of which were transformed, in seq order.
C6_MissingPartsSkipped ==
    \A k \in DOMAIN attempts :
        LET a == attempts[k]
        IN  /\ \A i \in DOMAIN a.r.calls : a.r.calls[i].path \in PartFiles
            /\ (a.r.raised /\ a.r.exc.type = "RuntimeError") => a.r.exc.what \in PartFiles
            /\ (ReachedParts(a) /\ \A p \in ExistingParts(a) : EngineOk(p)) =>
                  /\ ~a.r.raised
                  /\ a.r.value = Records(ExistingParts(a))
                  /\ Range(a.r.calls) = ExistingParts(a)
                  /\ NonDecreasing(a.r.calls)

\* C6 witness: one part of three is missing and the call returned the
\* combined count of the other two.
C6_Witness ==
    \E k \in DOMAIN attempts :
        LET a == attempts[k]
        IN  /\ a.mf.ok
            /\ Len(PartsOf(a)) = 3
            /\ Cardinality(ExistingParts(a)) = 2
            /\ ~a.r.raised
            /\ a.r.value = 3
            /\ Len(a.r.calls) = 2

\* the manifest the next ManifestStep transforms has an empty or missing
\* parts list
EmptyManifestNext ==
    /\ pc = "manifest"
    /\ ReadManifest(vault, manifests[ki]).ok
    /\ Get(ReadManifest(vault, manifests[ki]).obj, "parts", <<>>) = <<>>

\* C9: transforming a manifest whose parts list is empty or missing returns
\* 0 without raising (whether or not the transform metadata exists), sends
\* nothing to the engine and writes no file; execute() records no error for
\* it and adds nothing to the record total.
C9_EmptyManifest ==
    [][EmptyManifestNext =>
          /\ ~NewAttempt.r.raised
          /\ NewAttempt.r.value = 0
          /\ NewAttempt.r.calls = <<>>
          /\ out' = out
          /\ errors' = errors
          /\ total_records' = total_records]_vars

\* C9 witness: an empty manifest was transformed under a mapping whose
\* transform metadata does not exist, and the call returned 0.
C9_Witness ==
    \E k \in DOMAIN attempts :
        LET a == attempts[k]
        IN  /\ a.mf.ok
            /\ PartsOf(a) = <<>>
            /\ a.transform \notin Registry
            /\ ~a.r.raised
            /\ a.r.value = 0
            /\ errors = <<>>

\* the attempt just recorded failed in the engine
EngineFailed == NewAttempt.r.raised /\ NewAttempt.r.exc.type = "RuntimeError"

\* C10: when the engine exits non-zero on a part, that part is the last one
\* sent to the engine, every existing part not sent comes no earlier in seq
\* order, the output file holds exactly the outputs of the parts sent before
\* it (the pre-run content is gone, nothing of the failing part is there),
\* and execute() records exactly one error and adds nothing to the total.
C10_EngineFailure ==
    [][(pc = "manifest" /\ EngineFailed) =>
          LET a == NewAttempt
              calls == a.r.calls
              n == Len(calls)
          IN  /\ n >= 1
              /\ ~EngineOk(calls[n])
              /\ a.r.exc.what = calls[n].path
              /\ \A i \in 1..(n - 1) : EngineOk(calls[i])
              /\ NonDecreasing(calls)
              /\ \A p \in ExistingParts(a) \ Range(calls) : SeqKey(p) >= SeqKey(calls[n])
              /\ Content(out', FileOf(a)) = Outputs(SubSeq(calls, 1, n - 1))
              /\ (n = 1 => FileOf(a) \notin DOMAIN out')
              /\ errors' = Append(errors, [manifest |-> a.manifest, e |-> a.r.exc])
              /\ total_records' = total_records]_vars

\* C10 witness: the engine failed on the second of three parts; the output
\* file, which held earlier content, holds the first part's output only.
C10_Witness ==
    \E k \in DOMAIN attempts :
        LET a == attempts[k]
        IN  /\ a.mf.ok
            /\ PartsOf(a) = <<Part(0, "pa"), Part(1, "px"), Part(2, "pb")>>
            /\ a.before = OneFile(FileOf(a), <<"z", "\n">>)
            /\ a.r.raised
            /\ a.r.calls = <<Part(0, "pa"), Part(1, "px")>>
            /\ out[FileOf(a)] = <<"a", "\n">>
            /\ Len(errors) = 1
            /\ total_records = 0

\* C2 witness: an empty manifest was transformed while its output file held
\* earlier content, and the content is still there.
C2_StaleOutputKept ==
    \E k \in DOMAIN attempts :
        LET a == attempts[k]
        IN  /\ a.mf.ok
            /\ PartsOf(a) = <<>>
            /\ ~a.r.raised
            /\ FileOf(a) \in DOMAIN a.before
            /\ a.r.out[FileOf(a)] = <<"z", "\n">>

----------------------------------------------------------------------------
(* Properties of _find_manifests, checked under SpecFind *)

\* an account entry whose marker resolves to a manifest that exists
ValidAccount(entry) ==
    /\ entry.isdir
    /\ entry.marker.exists
    /\ entry.marker.ok
    /\ {"dt", "run_id"} \subseteq DOMAIN entry.marker.obj
    /\ entry.marker.obj.dt # ""
    /\ entry.marker.obj.run_id # ""
    /\ <<entry.marker.obj.dt, entry.marker.obj.run_id>> \in DOMAIN entry.runs

\* C7: the manifests discovered for a mapping are, each exactly once, the
\* manifests the markers of the valid account directories point to, and
\* nothing else; a source directory that does not exist yields none.
C7_Discovery ==
    \A i \in DOMAIN found :
        LET source_path == mappings[i].source_pattern
        IN  IF source_path \notin DOMAIN vault THEN found[i] = <<>>
            ELSE LET source_dir == vault[source_path]
                     valid == {a \in DOMAIN source_dir : ValidAccount(source_dir[a])}
                 IN  /\ Len(found[i]) = Cardinality(valid)
                     /\ Range(found[i]) =
                          {ManifestPath(source_path, a, source_dir[a].marker.obj.dt,
                                        source_dir[a].marker.obj.run_id) : a \in valid}

\* C7 witness: of two account directories, one with a marker whose dt is
\* empty (a manifest exists at the path it would name) and one valid, only
\* the valid one was returned.
C7_Witness ==
    /\ Len(found) = 1
    /\ "s1" \in DOMAIN vault
    /\ mappings[1].source_pattern = "s1"
    /\ vault["s1"]["a1"].isdir
    /\ vault["s1"]["a1"].marker = Marker([dt |-> "", run_id |-> "r1"])
    /\ <<"", "r1">> \in DOMAIN vault["s1"]["a1"].runs
    /\ ValidAccount(vault["s1"]["a2"])
    /\ found[1] = <<ManifestPath("s1", "a2", "d1", "r2")>>

----------------------------------------------------------------------------
(* Properties of execute(), checked under Spec *)

\* the attempts made for mapping i, in order
AttemptsOf(i) == SelectSeq(attempts, LAMBDA a : a.mapping = i)

RECURSIVE SumValues(_)
SumValues(as) ==
    IF as = <<>> THEN 0
    ELSE SumValues(SubSeq(as, 1, Len(as) - 1)) + Last(as).value

\* C4: when execute() has finished, every mapping was visited, every manifest
\* discovered for a mapping was attempted exactly once and in order whatever
\* happened to the manifests before it, the error list holds exactly one
\* entry per attempt that raised, in order, and the record total is the sum
\* of the counts returned by the attempts that did not raise.
C4_ManifestIsolation ==
    pc = "done" =>
        /\ Len(found) = Len(mappings)
        /\ \A i \in DOMAIN mappings :
              [k \in DOMAIN AttemptsOf(i) |-> AttemptsOf(i)[k].manifest] = found[i]
        /\ errors = [k \in DOMAIN SelectSeq(attempts, LAMBDA a : a.r.raised) |->
                        [manifest |-> SelectSeq(attempts, LAMBDA a : a.r.raised)[k].manifest,
                         e |-> SelectSeq(attempts, LAMBDA a : a.r.raised)[k].r.exc]]
        /\ total_records =
              SumValues([k \in DOMAIN SelectSeq(attempts, LAMBDA a : ~a.r.raised) |->
                            SelectSeq(attempts, LAMBDA a : ~a.r.raised)[k].r])
        /\ result.success => result.records_processed = total_records

\* C4 witness: the first manifest failed, a later one of the same mapping
\* and one of the next mapping were still transformed, and one later failed.
C4_Witness ==
    /\ pc = "done"
    /\ Len(attempts) = 4
    /\ attempts[1].r.raised
    /\ attempts[1].mapping = 1
    /\ ~attempts[2].r.raised
    /\ attempts[2].mapping = 1
    /\ attempts[3].mapping = 2
    /\ ~attempts[3].r.raised
    /\ attempts[4].r.raised
    /\ Len(errors) = 2
    /\ total_records = 2

\* mapping i's manifests were all transformed and wrote an output file
MappingSucceeded(i) ==
    /\ found[i] # <<>>
    /\ \A k \in DOMAIN attempts :
          attempts[k].mapping = i =>
              /\ ~attempts[k].r.raised
              /\ FileOf(attempts[k]) \in DOMAIN attempts[k].r.out
              /\ FileOf(attempts[k]) \in DOMAIN out

\* mapping i has a single manifest, which failed
OnlyManifestFailed(i) ==
    /\ Len(found[i]) = 1
    /\ \A k \in DOMAIN attempts : attempts[k].mapping = i => attempts[k].r.raised

\* C1 (as claimed): starting from an empty output directory, when mapping A's
\* manifests all succeed and write output files and mapping B's only manifest
\* fails, the result is success=True with metadata.errors = 1; and whenever a
\* canonical output file exists after the run the stage reports success.
C1_PartialSuccess ==
    pc = "done" =>
        /\ (/\ Len(mappings) = 2
            /\ attempts # <<>>
            /\ attempts[1].before = NoFiles
            /\ MappingSucceeded(1)
            /\ OnlyManifestFailed(2)) =>
                 (result.success /\ result.metadata.errors = 1)
        /\ JsonlFiles(out) # {} => result.success

\* C8 (as claimed): the output_files of a successful result hold every
\* *.jsonl file under the output directory, the canonical files
\* <output_dir>/<source>/<account>.jsonl written by this run among them.
C8_OutputFilesDeclared ==
    (pc = "done" /\ result.success) => JsonlFiles(out) \subseteq result.output_files

\* C5 (as claimed): the stage fails exactly when an error was recorded and
\* no canonical output file exists anywhere under the output directory, and
\* the failure names the number of errors and the first of them.
C5_HardFailure ==
    pc = "done" =>
        /\ ~result.success <=> (errors # <<>> /\ JsonlFiles(out) = {})
        /\ ~result.success =>
              result.error_message = [count |-> Len(errors), first |-> errors[1]]

====
